---- MODULE Spec2Model ----
(***************************************************************************)
(* A model of the MCQ auditor service (src/main.py): the /audit-doc        *)
(* endpoint audit_document with its helpers extract_doc_id,                *)
(* get_google_doc_text, parse_mcqs_from_text and run_mcq_audit_gemini.     *)
(*                                                                         *)
(* Python text is a sequence of one-character strings.  Python values that *)
(* the code tests for truth or compares across types (None, str, int,      *)
(* dict) are tagged records, see PyNone .. PyDict.                         *)
(***************************************************************************)
EXTENDS Integers, Sequences, FiniteSets, TLC

(***************************************************************************)
(* Bounds of the model.                                                    *)
(***************************************************************************)
MaxLen == 6        \* longest text handed to the segmenter in SpecSeg
MaxUrlLen == 4     \* longest doc_url of a request
MaxBlocks == 3     \* most question blocks of a fetched document
MaxConcBlocks == 2 \* most question blocks of a document of the concurrent runs
MaxSlack == 1      \* time that may pass while no request waits on its timer

(***************************************************************************)
(* Characters.  \s and str.strip() agree on what whitespace is, \d is a    *)
(* decimal digit.                                                          *)
(***************************************************************************)
Digits == <<"0", "1", "2", "3", "4", "5", "6", "7", "8", "9">>

IsSpace(c) == c \in {" ", "\n", "\t"}

IsDigit(c) == \E i \in 1..10 : Digits[i] = c

DigitVal(c) == (CHOOSE i \in 1..10 : Digits[i] = c) - 1

\* [a-zA-Z0-9-_] of extract_doc_id, over the characters the model uses
IsIdChar(c) == c \in {"d", "a", "Z", "0", "1", "-", "_"}

AllSpace(t, a, b) == \A i \in a..b : IsSpace(t[i])

AllDigit(t, a, b) == \A i \in a..b : IsDigit(t[i])

\* str.strip(): drop leading and trailing whitespace
Strip(t) ==
  IF \A i \in 1..Len(t) : IsSpace(t[i]) THEN <<>>
  ELSE LET lo == CHOOSE i \in 1..Len(t) :
                   ~IsSpace(t[i]) /\ \A j \in 1..(i-1) : IsSpace(t[j])
           hi == CHOOSE i \in 1..Len(t) :
                   ~IsSpace(t[i]) /\ \A j \in (i+1)..Len(t) : IsSpace(t[j])
       IN SubSeq(t, lo, hi)

\* int(s) for a string of decimal digits
RECURSIVE PyIntOf(_)
PyIntOf(s) ==
  IF s = <<>> THEN 0
  ELSE 10 * PyIntOf(SubSeq(s, 1, Len(s) - 1)) + DigitVal(s[Len(s)])

\* str(n) for n >= 0
RECURSIVE DecStr(_)
DecStr(n) ==
  IF n < 10 THEN <<Digits[n + 1]>>
  ELSE Append(DecStr(n \div 10), Digits[(n % 10) + 1])

\* "needle in haystack" on strings
Contains(hay, needle) ==
  \E i \in 1..(Len(hay) - Len(needle) + 1) :
     SubSeq(hay, i, i + Len(needle) - 1) = needle

(***************************************************************************)
(* parse_mcqs_from_text: regex  (Q\s*(\d+)\s*.*?)(?=Q\s*\d+\s*|\Z)  with   *)
(* re.DOTALL, scanned by re.finditer.                                      *)
(***************************************************************************)

\* the lookahead (?=Q\s*\d+\s*|\Z) at position e (1-based, Len+1 is the end)
LookAhead(t, e) ==
  \/ e = Len(t) + 1
  \/ /\ e <= Len(t)
     /\ t[e] = "Q"
     /\ \E d \in (e+1)..Len(t) : AllSpace(t, e + 1, d - 1) /\ IsDigit(t[d])

\* every way the pattern can match starting at s: <<a, b, c, e>> where the
\* first \s* ends before a, (\d+) is a..b-1, the second \s* is b..c-1 and
\* group 1 is s..e-1
Candidates(t, s) ==
  IF s > Len(t) \/ t[s] # "Q" THEN {}
  ELSE LET n == Len(t)
           As    == { a \in (s+1)..(n+1) : AllSpace(t, s + 1, a - 1) }
           Bs(a) == { b \in (a+1)..(n+1) : AllDigit(t, a, b - 1) }
           Cs(b) == { c \in b..(n+1) : AllSpace(t, b, c - 1) }
           Es(c) == { e \in c..(n+1) : LookAhead(t, e) }
       IN UNION { UNION { UNION { { <<a, b, c, e>> : e \in Es(c) }
                                  : c \in Cs(b) }
                          : b \in Bs(a) }
                  : a \in As }

\* Prefer with .* greedy in place of the lazy .*?
PreferGreedy(m, k) ==
  \/ m[1] > k[1]
  \/ m[1] = k[1] /\ m[2] > k[2]
  \/ m[1] = k[1] /\ m[2] = k[2] /\ m[3] > k[3]
  \/ m[1] = k[1] /\ m[2] = k[2] /\ m[3] = k[3] /\ m[4] >= k[4]

\* the backtracking order: \s*, \d+, \s* greedy (longest first), .*? lazy
Prefer(m, k) ==
  \/ m[1] > k[1]
  \/ m[1] = k[1] /\ m[2] > k[2]
  \/ m[1] = k[1] /\ m[2] = k[2] /\ m[3] > k[3]
  \/ m[1] = k[1] /\ m[2] = k[2] /\ m[3] = k[3] /\ m[4] <= k[4]

MatchAt(t, s) ==
  LET cs == Candidates(t, s)
      m  == CHOOSE m \in cs : \A k \in cs : Prefer(m, k) \/ m = k
  IN [start |-> s, end |-> m[4], dfrom |-> m[1], dto |-> m[2]]

\* re.finditer: leftmost match at or after pos, then on from its end
RECURSIVE FindIter(_, _)
FindIter(t, pos) ==
  LET starts == { s \in pos..Len(t) : Candidates(t, s) # {} }
  IN IF starts = {} THEN <<>>
     ELSE LET s == CHOOSE s \in starts : \A u \in starts : s <= u
              m == MatchAt(t, s)
          IN <<m>> \o FindIter(t, m.end)

Group1(t, m) == SubSeq(t, m.start, m.end - 1)

Group2(t, m) == SubSeq(t, m.dfrom, m.dto - 1)

RECURSIVE BlocksOf(_, _)
BlocksOf(t, ms) ==
  IF ms = <<>> THEN <<>>
  ELSE LET full_text == Strip(Group1(t, Head(ms)))
           q_num     == Strip(Group2(t, Head(ms)))
       IN (IF full_text # <<>>
           THEN << [q_num_str |-> q_num, full_text |-> full_text] >>
           ELSE <<>>) \o BlocksOf(t, Tail(ms))

parse_mcqs_from_text(doc_text) == BlocksOf(doc_text, FindIter(doc_text, 1))

(***************************************************************************)
(* Python values.  PyStr carries a whole string (values that are only      *)
(* compared), PyText a string as characters (values that are searched).    *)
(***************************************************************************)
PyNone == [ty |-> "None"]

PyStr(s) == [ty |-> "str", s |-> s]

PyText(cs) == [ty |-> "str", cs |-> cs]

PyInt(i) == [ty |-> "int", i |-> i]

PyDict(d) == [ty |-> "dict", d |-> d]

\* bool(v): what "if v" and "not v" test
Truthy(v) ==
  CASE v.ty = "None" -> FALSE
    [] v.ty = "str"  -> IF "cs" \in DOMAIN v THEN v.cs # <<>> ELSE v.s # ""
    [] v.ty = "int"  -> v.i # 0
    [] v.ty = "dict" -> DOMAIN v.d # {}

(***************************************************************************)
(* extract_doc_id: re.search(r'/d/([a-zA-Z0-9-_]+)', url)                  *)
(***************************************************************************)
extract_doc_id(url) ==
  LET hits == { p \in 1..(Len(url) - 3) :
                  /\ url[p] = "/" /\ url[p+1] = "d" /\ url[p+2] = "/"
                  /\ IsIdChar(url[p+3]) }
  IN IF hits = {} THEN PyNone
     ELSE LET p == CHOOSE p \in hits : \A q \in hits : p <= q
              e == CHOOSE e \in (p+3)..Len(url) :
                     /\ \A i \in (p+3)..e : IsIdChar(url[i])
                     /\ (e = Len(url) \/ ~IsIdChar(url[e+1]))
          IN PyText(SubSeq(url, p + 3, e))

(***************************************************************************)
(* get_google_doc_text.  What the document host does is one of             *)
(* FetchOutcomes: a response with a status code and a body of bytes, or a  *)
(* requests.exceptions.RequestException out of requests.get.               *)
(***************************************************************************)

\* the ASCII bytes the model's documents are written in
ByteChar(b) ==
  CASE b = 10 -> "\n"
    [] b = 32 -> " "
    [] b \in 48..57 -> Digits[b - 47]
    [] b = 81 -> "Q"
    [] b = 120 -> "x"

\* bytes.decode('utf-8') of the model's bodies: ASCII bytes decode to their
\* character, and the byte 0xFF is part of no UTF-8 sequence
Utf8Valid(content) == \A i \in 1..Len(content) : content[i] < 128

Utf8Decode(content) == [i \in 1..Len(content) |-> ByteChar(content[i])]

\* the value returned, or the exception that leaves the function
get_google_doc_text(outcome) ==
  IF outcome.kind = "RequestException"
  THEN [raised |-> FALSE, value |-> PyNone]
  ELSE IF outcome.status_code = 200
       THEN IF Utf8Valid(outcome.content)
            THEN [raised |-> FALSE, value |-> PyText(Utf8Decode(outcome.content))]
            ELSE [raised |-> TRUE, exc |-> "UnicodeDecodeError"]
       ELSE [raised |-> FALSE, value |-> PyNone]

(***************************************************************************)
(* run_mcq_audit_gemini.  What the oracle does on one call is one of       *)
(* OracleBehaviours: generate_content raises, or the response carries a    *)
(* text that json.loads parses or rejects.                                 *)
(***************************************************************************)
VerdictOK ==
  PyDict(("Q_no" :> PyInt(1)) @@ ("Option Status" :> PyStr("OK"))
         @@ ("Issue Summary" :> PyNone))

VerdictFaulty ==
  PyDict(("Q_no" :> PyInt(7)) @@ ("Option Status" :> PyStr("Faulty"))
         @@ ("Issue Summary" :> PyStr("MathEquivalent: A & B")))

\* json.loads on the response texts of the model: the value, or the
\* position at which JSONDecodeError reports the text malformed
json_loads(text) ==
  CASE text = "{\"Q_no\": 1, \"Option Status\": \"OK\", \"Issue Summary\": null}"
         -> [ok |-> TRUE, value |-> VerdictOK]
    [] text = "{\"Q_no\": 7, \"Option Status\": \"Faulty\", \"Issue Summary\": \"MathEquivalent: A & B\"}"
         -> [ok |-> TRUE, value |-> VerdictFaulty]
    [] text = "{\"Q_no\": 1}"
         -> [ok |-> TRUE, value |-> PyDict("Q_no" :> PyInt(1))]
    [] text = "{}"
         -> [ok |-> TRUE, value |-> PyDict(<<>>)]
    [] text = "\"RATE_LIMIT_ERROR\""
         -> [ok |-> TRUE, value |-> PyStr("RATE_LIMIT_ERROR")]
    [] text = ""
         -> [ok |-> FALSE, pos |-> 0]
    [] text = "<429 characters of a JSON object, then end of text>"
         -> [ok |-> FALSE, pos |-> 429]

ResponseTexts ==
  { "{\"Q_no\": 1, \"Option Status\": \"OK\", \"Issue Summary\": null}",
    "{\"Q_no\": 7, \"Option Status\": \"Faulty\", \"Issue Summary\": \"MathEquivalent: A & B\"}",
    "{\"Q_no\": 1}",
    "{}",
    "\"RATE_LIMIT_ERROR\"",
    "",
    "<429 characters of a JSON object, then end of text>" }

\* str(e) of a JSONDecodeError at pos of a one-line text:
\* "...: line 1 column <pos+1> (char <pos>)"
JSONDecodeErrorStr(pos) ==
  <<"c", "o", "l", " ">> \o DecStr(pos + 1) \o <<" ", "c", "h", "a", "r", " ">>
    \o DecStr(pos)

\* str(e) of what generate_content raises
QuotaMsg == <<"4", "2", "9", " ", "q", "u", "o", "t", "a">>

UnavailableMsg == <<"5", "0", "3", " ", "d", "o", "w", "n">>

\* "429" in str(e)
is_rate_limit_error(msg) == Contains(msg, <<"4", "2", "9">>)

RATE_LIMIT_ERROR == PyStr("RATE_LIMIT_ERROR")

\* the except branch, lines 129-134
on_exception(msg) == IF is_rate_limit_error(msg) THEN RATE_LIMIT_ERROR ELSE PyNone

run_mcq_audit_gemini(one_question_text, b) ==
  IF b.kind = "raise" THEN on_exception(b.msg)
  ELSE LET parsed == json_loads(b.text)
       IN IF parsed.ok THEN parsed.value
          ELSE on_exception(JSONDecodeErrorStr(parsed.pos))

(***************************************************************************)
(* audit_document, lines 141-195.                                          *)
(***************************************************************************)
SleepDelay == 5

\* the entry synthesized for a question the oracle gave no verdict on
Inconclusive(question, summary) ==
  PyDict(("Q_no" :> PyInt(PyIntOf(question.q_num_str)))
         @@ ("Option Status" :> PyStr("Inconclusive"))
         @@ ("Issue Summary" :> PyStr(summary)))

\* is_abort of a loop that records the rate limit and goes on
is_abort_never(result_obj) == FALSE

\* line 168: the result that ends the audit
is_abort(result_obj) == result_obj = RATE_LIMIT_ERROR

\* audit_entry that sets a verdict's Q_no to the block's own number
audit_entry_renumbered(question, result_obj) ==
  IF result_obj = RATE_LIMIT_ERROR
  THEN Inconclusive(question, "Failed: API Rate Limit hit.")
  ELSE IF Truthy(result_obj)
       THEN IF result_obj.ty = "dict"
            THEN PyDict(("Q_no" :> PyInt(PyIntOf(question.q_num_str))) @@ result_obj.d)
            ELSE result_obj
       ELSE Inconclusive(question, "Failed to audit (API or JSON error)")

\* lines 168-187: what is appended to final_audit_list
audit_entry(question, result_obj) ==
  IF result_obj = RATE_LIMIT_ERROR
  THEN Inconclusive(question, "Failed: API Rate Limit hit.")
  ELSE IF Truthy(result_obj)
       THEN result_obj
       ELSE Inconclusive(question, "Failed to audit (API or JSON error)")

\* next_question of a loop that submits the same question again
next_question_again(i) == i

\* line 164: the for loop moves to the next question
next_question(i) == i + 1

\* wake_time of a loop that does not sleep
wake_time_at_once(t) == t

\* line 192: await asyncio.sleep(5) resumes no earlier than this
wake_time(t) == t + SleepDelay

\* precheck with the reference checked before the credential
precheck_link_first(api_key, doc_url) ==
  IF ~Truthy(extract_doc_id(doc_url))
  THEN [status_code |-> 400, detail |-> "Invalid Google Doc link."]
  ELSE IF ~Truthy(api_key)
       THEN [status_code |-> 500, detail |-> "Server is missing GOOGLE_API_KEY"]
       ELSE [status_code |-> 0]

\* lines 146-151: the response of a request that fails its checks, or
\* status_code 0 when both pass
precheck(api_key, doc_url) ==
  IF ~Truthy(api_key)
  THEN [status_code |-> 500, detail |-> "Server is missing GOOGLE_API_KEY"]
  ELSE IF ~Truthy(extract_doc_id(doc_url))
       THEN [status_code |-> 400, detail |-> "Invalid Google Doc link."]
       ELSE [status_code |-> 0]

\* an exception no handler catches: the framework answers 500
InternalServerError == [status_code |-> 500, detail |-> "Internal Server Error"]

Reqs == {1, 2}

VARIABLES
  GOOGLE_API_KEY,    \* the module-level credential, line 17
  reqs,              \* the requests of this run
  request,           \* request[r]: the doc_url of request r
  pc,                \* where request r is: start, fetching, calling,
                     \*   sleeping, returned, raised
  doc_id, parsed_questions, idx, final_audit_list,   \* locals of audit_document
  response,          \* what the caller of request r gets
  wake,              \* when the sleep of request r is over
  loopOwner,         \* the request the event loop is running, 0 for none
  now,               \* the clock
  gets,              \* GETs request r has issued
  fetched,           \* what the document host answered them with
  calls,             \* the texts request r has handed to the classifier
  callTimes,         \* when each of those calls started
  oracle,            \* what the oracle did on each completed call
  results,           \* what run_mcq_audit_gemini returned on each
  inflight,          \* classifier calls of request r not yet returned
  pauses,            \* sleeps request r has completed
  slack,             \* time that has passed with no request waiting on its timer
  segText, segMatches, segBlocks, segDone   \* the segmenter on its own

reqVars == <<request, pc, doc_id, parsed_questions, idx, final_audit_list,
             response, wake, gets, fetched, calls, callTimes, oracle,
             results, inflight, pauses>>

segVars == <<segText, segMatches, segBlocks, segDone>>

vars == <<GOOGLE_API_KEY, reqs, reqVars, loopOwner, now, slack, segVars>>

TextsUpTo(n, alphabet) == UNION { [1..k -> alphabet] : k \in 0..n }

(***************************************************************************)
(* The environment: credentials, references, documents, oracle.            *)
(***************************************************************************)
ApiKeys == { PyNone, PyStr(""), PyStr("AIza-key") }

UrlAlphabet == {"/", "d"}

Urls == TextsUpTo(MaxUrlLen, UrlAlphabet)

\* a document of k question blocks: "Q01 x", "Q2", "Q3", ...
RECURSIVE DocOf(_)
DocOf(k) ==
  IF k = 0 THEN <<>>
  ELSE IF k = 1 THEN <<81, 48, 49, 32, 120>>
       ELSE DocOf(k - 1) \o <<81, 48 + (k % 10)>>

Contents ==
  { DocOf(k) : k \in 0..MaxBlocks } \cup { <<120, 10>>, <<81, 49, 255>> }

FetchOutcomes ==
  { [kind |-> "response", status_code |-> 200, content |-> c] : c \in Contents }
  \cup { [kind |-> "response", status_code |-> 404, content |-> <<>>],
         [kind |-> "RequestException"] }

OracleBehaviours ==
  { [kind |-> "raise", msg |-> QuotaMsg], [kind |-> "raise", msg |-> UnavailableMsg] }
  \cup { [kind |-> "text", text |-> t] : t \in ResponseTexts }

\* the oracle of the concurrent runs: a verdict, a failure, a rate limit
ConcBehaviours ==
  { [kind |-> "raise", msg |-> QuotaMsg], [kind |-> "raise", msg |-> UnavailableMsg],
    [kind |-> "text",
     text |-> "{\"Q_no\": 1, \"Option Status\": \"OK\", \"Issue Summary\": null}"] }

(***************************************************************************)
(* Initial states.                                                         *)
(***************************************************************************)
InitReqs(rs, urls) ==
  /\ reqs = rs
  /\ request \in [Reqs -> urls]
  /\ \A r \in Reqs \ rs : request[r] = <<>>
  /\ pc = [r \in Reqs |-> IF r \in rs THEN "start" ELSE "none"]
  /\ doc_id = [r \in Reqs |-> PyNone]
  /\ parsed_questions = [r \in Reqs |-> <<>>]
  /\ idx = [r \in Reqs |-> 0]
  /\ final_audit_list = [r \in Reqs |-> <<>>]
  /\ response = [r \in Reqs |-> [status_code |-> 0]]
  /\ wake = [r \in Reqs |-> 0]
  /\ loopOwner = 0
  /\ now = 0
  /\ slack = 0
  /\ gets = [r \in Reqs |-> 0]
  /\ fetched = [r \in Reqs |-> <<>>]
  /\ calls = [r \in Reqs |-> <<>>]
  /\ callTimes = [r \in Reqs |-> <<>>]
  /\ oracle = [r \in Reqs |-> <<>>]
  /\ results = [r \in Reqs |-> <<>>]
  /\ inflight = [r \in Reqs |-> 0]
  /\ pauses = [r \in Reqs |-> 0]

InitNoSeg ==
  /\ segText = <<>>
  /\ segMatches = <<>>
  /\ segBlocks = <<>>
  /\ segDone = TRUE

Init ==
  /\ GOOGLE_API_KEY \in ApiKeys
  /\ InitReqs({1}, Urls)
  /\ InitNoSeg

(***************************************************************************)
(* The steps of a request.  The endpoint is a coroutine on one event loop: *)
(* requests.get and generate_content block the loop, await asyncio.sleep   *)
(* releases it.                                                            *)
(***************************************************************************)

\* the request fails with an HTTPException or an unhandled exception
Raise(r, resp) ==
  /\ pc' = [pc EXCEPT ![r] = "raised"]
  /\ response' = [response EXCEPT ![r] = resp]
  /\ loopOwner' = 0

\* line 166: hand question i to the classifier
StartCall(r, questions, i) ==
  /\ idx' = [idx EXCEPT ![r] = i]
  /\ calls' = [calls EXCEPT ![r] = Append(@, questions[i].full_text)]
  /\ callTimes' = [callTimes EXCEPT ![r] = Append(@, now)]
  /\ inflight' = [inflight EXCEPT ![r] = @ + 1]
  /\ pc' = [pc EXCEPT ![r] = "calling"]
  /\ loopOwner' = r

\* lines 146-153, up to requests.get being sent
Begin(r) ==
  /\ pc[r] = "start"
  /\ loopOwner = 0
  /\ LET pre == precheck(GOOGLE_API_KEY, request[r])
     IN IF pre.status_code # 0
        THEN /\ Raise(r, pre)
             /\ UNCHANGED <<doc_id, gets>>
        ELSE /\ doc_id' = [doc_id EXCEPT ![r] = extract_doc_id(request[r])]
             /\ gets' = [gets EXCEPT ![r] = @ + 1]
             /\ pc' = [pc EXCEPT ![r] = "fetching"]
             /\ loopOwner' = r
             /\ UNCHANGED response
  /\ UNCHANGED <<GOOGLE_API_KEY, reqs, request, parsed_questions, idx,
                 final_audit_list, wake, now, slack, fetched, calls,
                 callTimes, oracle, results, inflight, pauses, segVars>>

\* lines 84-92 and 153-166: the GET ends, the text is segmented and the
\* first question goes to the classifier
FetchReturn(r, outcome) ==
  /\ pc[r] = "fetching"
  /\ loopOwner = r
  /\ fetched' = [fetched EXCEPT ![r] = Append(@, outcome)]
  /\ LET got == get_google_doc_text(outcome)
     IN IF got.raised
        THEN /\ Raise(r, InternalServerError)
             /\ UNCHANGED <<parsed_questions, idx, calls, callTimes, inflight>>
        ELSE IF ~Truthy(got.value)
        THEN /\ Raise(r, [status_code |-> 404,
                          detail |-> "Failed to get document text. Is it public?"])
             /\ UNCHANGED <<parsed_questions, idx, calls, callTimes, inflight>>
        ELSE LET questions == parse_mcqs_from_text(got.value.cs)
             IN IF questions = <<>>
                THEN /\ Raise(r, [status_code |-> 404,
                                  detail |-> "No valid question blocks (e.g., 'Q1') found."])
                     /\ UNCHANGED <<parsed_questions, idx, calls, callTimes, inflight>>
                ELSE /\ parsed_questions' = [parsed_questions EXCEPT ![r] = questions]
                     /\ StartCall(r, questions, 1)
                     /\ UNCHANGED response
  /\ UNCHANGED <<GOOGLE_API_KEY, reqs, request, doc_id, final_audit_list,
                 wake, now, slack, gets, oracle, results, pauses, segVars>>

\* lines 123-134 and 168-192: the oracle's call ends, its outcome is
\* appended, and the request returns or starts its sleep
ClassifierReturn(r, b) ==
  /\ pc[r] = "calling"
  /\ loopOwner = r
  /\ LET question   == parsed_questions[r][idx[r]]
         result_obj == run_mcq_audit_gemini(question.full_text, b)
         report     == Append(final_audit_list[r], audit_entry(question, result_obj))
     IN /\ oracle' = [oracle EXCEPT ![r] = Append(@, b)]
        /\ results' = [results EXCEPT ![r] = Append(@, result_obj)]
        /\ inflight' = [inflight EXCEPT ![r] = @ - 1]
        /\ final_audit_list' = [final_audit_list EXCEPT ![r] = report]
        /\ IF is_abort(result_obj)
           THEN /\ pc' = [pc EXCEPT ![r] = "returned"]
                /\ response' = [response EXCEPT ![r] =
                                  [status_code |-> 200, body |-> report]]
                /\ UNCHANGED wake
           ELSE /\ pc' = [pc EXCEPT ![r] = "sleeping"]
                /\ wake' = [wake EXCEPT ![r] = wake_time(now)]
                /\ UNCHANGED response
  /\ loopOwner' = 0
  /\ UNCHANGED <<GOOGLE_API_KEY, reqs, request, doc_id, parsed_questions, idx,
                 now, slack, gets, fetched, calls, callTimes, pauses, segVars>>

\* lines 192, 164-166 and 194-195: the sleep is over; the next question
\* goes to the classifier, or the loop is done and the report returned
Wake(r) ==
  /\ pc[r] = "sleeping"
  /\ loopOwner = 0
  /\ now >= wake[r]
  /\ pauses' = [pauses EXCEPT ![r] = @ + 1]
  /\ LET i == next_question(idx[r])
     IN IF i <= Len(parsed_questions[r])
        THEN /\ StartCall(r, parsed_questions[r], i)
             /\ UNCHANGED response
        ELSE /\ pc' = [pc EXCEPT ![r] = "returned"]
             /\ response' = [response EXCEPT ![r] =
                               [status_code |-> 200, body |-> final_audit_list[r]]]
             /\ loopOwner' = 0
             /\ UNCHANGED <<idx, calls, callTimes, inflight>>
  /\ UNCHANGED <<GOOGLE_API_KEY, reqs, request, doc_id, parsed_questions,
                 final_audit_list, wake, now, slack, gets, fetched, oracle,
                 results, segVars>>

\* some request is in its sleep and the sleep is not over
Waiting == \E r \in reqs : pc[r] = "sleeping" /\ now < wake[r]

\* time passes, at any point of a run; the model bounds by MaxSlack the
\* time that passes while no request is waiting on its timer
Tick ==
  /\ Waiting \/ slack < MaxSlack
  /\ now' = now + 1
  /\ slack' = IF Waiting THEN slack ELSE slack + 1
  /\ UNCHANGED <<GOOGLE_API_KEY, reqs, reqVars, loopOwner, segVars>>

\* time passes up to the next moment at which a sleep is over
Elapse ==
  /\ Waiting
  /\ LET due == { wake[r] : r \in { q \in reqs : pc[q] = "sleeping" /\ now < wake[q] } }
     IN now' = CHOOSE t \in due : \A u \in due : t <= u
  /\ UNCHANGED <<GOOGLE_API_KEY, reqs, reqVars, loopOwner, slack, segVars>>

Next ==
  \/ \E r \in reqs : Begin(r)
  \/ \E r \in reqs : \E outcome \in FetchOutcomes : FetchReturn(r, outcome)
  \/ \E r \in reqs : \E b \in OracleBehaviours : ClassifierReturn(r, b)
  \/ \E r \in reqs : Wake(r)
  \/ Tick

Spec == Init /\ [][Next]_vars

(***************************************************************************)
(* Two requests at once, for documents that reach the audit loop.          *)
(***************************************************************************)
ConcOutcomes ==
  { [kind |-> "response", status_code |-> 200, content |-> DocOf(k)] :
      k \in 1..MaxConcBlocks }
  \cup { [kind |-> "RequestException"] }

InitConc ==
  /\ GOOGLE_API_KEY = PyStr("AIza-key")
  /\ InitReqs({1, 2}, { <<"/", "d", "/", "d">> })
  /\ InitNoSeg

NextConc ==
  \/ \E r \in reqs : Begin(r)
  \/ \E r \in reqs : \E outcome \in ConcOutcomes : FetchReturn(r, outcome)
  \/ \E r \in reqs : \E b \in ConcBehaviours : ClassifierReturn(r, b)
  \/ \E r \in reqs : Wake(r)
  \/ Elapse

SpecConc == InitConc /\ [][NextConc]_vars

(***************************************************************************)
(* The segmenter on its own: every text of at most MaxLen characters.      *)
(***************************************************************************)
SegAlphabet == {"Q", "1", "0", " ", "x"}

InitSeg ==
  /\ GOOGLE_API_KEY = PyNone
  /\ InitReqs({}, {<<>>})
  /\ segText \in TextsUpTo(MaxLen, SegAlphabet)
  /\ segMatches = <<>>
  /\ segBlocks = <<>>
  /\ segDone = FALSE

Segment ==
  /\ ~segDone
  /\ segMatches' = FindIter(segText, 1)
  /\ segBlocks' = parse_mcqs_from_text(segText)
  /\ segDone' = TRUE
  /\ UNCHANGED <<GOOGLE_API_KEY, reqs, reqVars, loopOwner, now, slack, segText>>

NextSeg == Segment

SpecSeg == InitSeg /\ [][NextSeg]_vars

(***************************************************************************)
(* Properties.                                                             *)
(***************************************************************************)

\* the question markers of a text: "Q", whitespace, a digit
MarkerStarts(t) ==
  { p \in 1..Len(t) :
      /\ t[p] = "Q"
      /\ \E d \in (p+1)..Len(t) :
           IsDigit(t[d]) /\ \A i \in (p+1)..(d-1) : IsSpace(t[i]) }

\* where the digits of the marker at p start and end
MarkerDigitsFrom(t, p) == CHOOSE d \in (p+1)..Len(t) : ~IsSpace(t[d])

MarkerDigitsTo(t, p) ==
  CHOOSE e \in MarkerDigitsFrom(t, p)..Len(t) :
    /\ \A i \in MarkerDigitsFrom(t, p)..e : IsDigit(t[i])
    /\ (e = Len(t) \/ ~IsDigit(t[e+1]))

NthMarker(t, n) ==
  CHOOSE p \in MarkerStarts(t) : Cardinality({ q \in MarkerStarts(t) : q < p }) = n - 1

\* an oracle behaviour that is a verdict of the three-field shape
IsNormal(b) ==
  /\ b.kind = "text"
  /\ b.text \in { "{\"Q_no\": 1, \"Option Status\": \"OK\", \"Issue Summary\": null}",
                  "{\"Q_no\": 7, \"Option Status\": \"Faulty\", \"Issue Summary\": \"MathEquivalent: A & B\"}" }

\* the verdict such a behaviour carries
VerdictOf(b) ==
  IF b.text = "{\"Q_no\": 1, \"Option Status\": \"OK\", \"Issue Summary\": null}"
  THEN [ty |-> "dict",
        d |-> ("Q_no" :> [ty |-> "int", i |-> 1])
              @@ ("Option Status" :> [ty |-> "str", s |-> "OK"])
              @@ ("Issue Summary" :> [ty |-> "None"])]
  ELSE [ty |-> "dict",
        d |-> ("Q_no" :> [ty |-> "int", i |-> 7])
              @@ ("Option Status" :> [ty |-> "str", s |-> "Faulty"])
              @@ ("Issue Summary" :> [ty |-> "str", s |-> "MathEquivalent: A & B"])]

\* CallFailed (an error that is not the rate-limit signal) or
\* MalformedResponse (a text that is not JSON)
IsFailure(b) ==
  \/ b.kind = "raise" /\ b.msg = UnavailableMsg
  \/ b.kind = "text" /\ b.text \in { "", "<429 characters of a JSON object, then end of text>" }

\* the entry synthesized for block n of request r
Synthesized(r, n, summary) ==
  [ty |-> "dict",
   d |-> ("Q_no" :> [ty |-> "int", i |-> PyIntOf(parsed_questions[r][n].q_num_str)])
         @@ ("Option Status" :> [ty |-> "str", s |-> "Inconclusive"])
         @@ ("Issue Summary" :> [ty |-> "str", s |-> summary])]

\* what call n of request r left in the report when it did not abort
OutcomeEntry(r, n) ==
  IF Truthy(results[r][n]) THEN results[r][n]
  ELSE Synthesized(r, n, "Failed to audit (API or JSON error)")

Blocks(r) == Len(parsed_questions[r])

\* C1: when the classifier signals RateLimited on call i and not earlier,
\* the request has returned successfully with a report of exactly i
\* entries: the outcomes of calls 1..i-1 in order, then the synthesized
\* "Failed: API Rate Limit hit." entry for block i; no call beyond i is made.
RateLimitAbort ==
  \A r \in reqs : \A i \in 1..Len(results[r]) :
    (/\ results[r][i] = RATE_LIMIT_ERROR
     /\ \A k \in 1..(i-1) : results[r][k] # RATE_LIMIT_ERROR)
    => /\ pc[r] = "returned"
       /\ response[r] = [status_code |-> 200, body |-> final_audit_list[r]]
       /\ Len(final_audit_list[r]) = i
       /\ Len(calls[r]) = i
       /\ Len(results[r]) = i
       /\ final_audit_list[r][i] = Synthesized(r, i, "Failed: API Rate Limit hit.")
       /\ \A k \in 1..(i-1) : final_audit_list[r][k] = OutcomeEntry(r, k)

\* a rate limit on the second of three blocks, after a verdict
RateLimitAbortWitness ==
  \E r \in reqs :
    /\ pc[r] = "returned"
    /\ Blocks(r) = 3
    /\ Len(results[r]) = 2
    /\ results[r][1] = VerdictFaulty
    /\ results[r][2] = RATE_LIMIT_ERROR
    /\ final_audit_list[r][2].d["Q_no"].i = 2

\* C2: when exactly one call, j, ends in CallFailed or MalformedResponse
\* and every other call gives a verdict, the audit does not abort: the
\* report has one entry per block, entry j is the synthesized "Failed to
\* audit (API or JSON error)" entry and every other entry is its verdict.
NonFatalFailure ==
  \A r \in reqs : \A j \in 1..Len(oracle[r]) :
    (/\ pc[r] = "returned"
     /\ IsFailure(oracle[r][j])
     /\ \A k \in 1..Len(oracle[r]) : k # j => IsNormal(oracle[r][k]))
    => /\ Len(final_audit_list[r]) = Blocks(r)
       /\ final_audit_list[r][j] = Synthesized(r, j, "Failed to audit (API or JSON error)")
       /\ \A k \in 1..Len(final_audit_list[r]) :
            k # j => final_audit_list[r][k] = VerdictOf(oracle[r][k])

\* C3: when every call gives a verdict, the classifier is called once per
\* block, with the block's text, in document order, and the report is the
\* verdicts as returned, the oracle's own Q_no included.
AllNormalAudit ==
  \A r \in reqs :
    (/\ pc[r] = "returned"
     /\ \A n \in 1..Len(oracle[r]) : IsNormal(oracle[r][n]))
    => /\ Len(calls[r]) = Blocks(r)
       /\ Len(oracle[r]) = Blocks(r)
       /\ Len(final_audit_list[r]) = Blocks(r)
       /\ \A n \in 1..Blocks(r) :
            /\ calls[r][n] = parsed_questions[r][n].full_text
            /\ final_audit_list[r][n] = VerdictOf(oracle[r][n])
       /\ response[r] = [status_code |-> 200, body |-> final_audit_list[r]]

\* three blocks, three verdicts, the first with a Q_no that is not the
\* block's number
AllNormalAuditWitness ==
  \E r \in reqs :
    /\ pc[r] = "returned"
    /\ Blocks(r) = 3
    /\ \A n \in 1..Len(oracle[r]) : IsNormal(oracle[r][n])
    /\ parsed_questions[r][1].q_num_str = <<"0", "1">>
    /\ final_audit_list[r][1].d["Q_no"].i = 7

\* C4: a text with N markers is cut into N blocks in order; match n runs
\* from marker n to marker n+1 (the last to the end of the text), so the
\* spans cover the text from the first marker on without gap or overlap;
\* block n's text starts with marker n and its label is the marker's digits.
SegmentationPartition ==
  segDone =>
    LET t == segText
        N == Cardinality(MarkerStarts(t))
    IN /\ Len(segMatches) = N
       /\ Len(segBlocks) = N
       /\ \A n \in 1..N :
            LET p == NthMarker(t, n)
                e == MarkerDigitsTo(t, p)
            IN /\ segMatches[n].start = p
               /\ segMatches[n].end = (IF n < N THEN NthMarker(t, n + 1) ELSE Len(t) + 1)
               /\ segBlocks[n].q_num_str = SubSeq(t, MarkerDigitsFrom(t, p), e)
               /\ Len(segBlocks[n].full_text) >= e - p + 1
               /\ SubSeq(segBlocks[n].full_text, 1, e - p + 1) = SubSeq(t, p, e)
               /\ segBlocks[n].full_text = Strip(SubSeq(t, p, segMatches[n].end - 1))

\* text before the first marker, then a marker with nothing before the next
SegmentationPartitionWitness ==
  /\ segDone
  /\ Len(segBlocks) >= 2
  /\ segMatches[1].start > 1
  /\ segBlocks[1].full_text = <<"Q", "1", "0">>
  /\ segMatches[2].start = segMatches[1].start + 3

\* a verdict object: Q_no an integer, Option Status one of the three,
\* Issue Summary a string or null, and no other field
IsVerdictObject(v) ==
  /\ v.ty = "dict"
  /\ DOMAIN v.d = {"Q_no", "Option Status", "Issue Summary"}
  /\ v.d["Q_no"].ty = "int"
  /\ v.d["Option Status"] \in { [ty |-> "str", s |-> "OK"],
                                [ty |-> "str", s |-> "Faulty"],
                                [ty |-> "str", s |-> "Inconclusive"] }
  /\ v.d["Issue Summary"].ty \in {"str", "None"}

\* C5: every entry of every report is a verdict object.
ReportWellFormed ==
  \A r \in reqs : \A n \in 1..Len(final_audit_list[r]) :
    IsVerdictObject(final_audit_list[r][n])

CredentialAbsent == GOOGLE_API_KEY \in { [ty |-> "None"], [ty |-> "str", s |-> ""] }

\* the reference has a /d/<id> segment
HasDocSegment(url) ==
  \E p \in 1..Len(url) :
    /\ p + 3 <= Len(url)
    /\ SubSeq(url, p, p + 2) = <<"/", "d", "/">>
    /\ IsIdChar(url[p + 3])

\* C6: without a credential the request fails with 500 and the reference
\* is not parsed; with one and no /d/<id> in the reference it fails with
\* 400; no GET and no oracle call is made unless both checks passed.
PreLoopFailures ==
  \A r \in reqs :
    /\ (gets[r] > 0 \/ calls[r] # <<>>) => ~CredentialAbsent /\ HasDocSegment(request[r])
    /\ (pc[r] # "start" /\ CredentialAbsent)
         => /\ pc[r] = "raised"
            /\ response[r].status_code = 500
            /\ doc_id[r] = [ty |-> "None"]
            /\ gets[r] = 0 /\ calls[r] = <<>>
    /\ (pc[r] # "start" /\ ~CredentialAbsent /\ ~HasDocSegment(request[r]))
         => /\ pc[r] = "raised"
            /\ response[r].status_code = 400
            /\ gets[r] = 0 /\ calls[r] = <<>>

\* a reference with /d/ and no id after it is refused
PreLoopFailuresWitness ==
  \E r \in reqs :
    /\ pc[r] = "raised"
    /\ response[r].status_code = 400
    /\ Contains(request[r], <<"/", "d", "/">>)

\* the fetch did not succeed: a status other than 200, a transport error,
\* or a body that is not UTF-8
FetchUnsuccessful(o) ==
  \/ o.kind = "RequestException"
  \/ o.kind = "response" /\ o.status_code # 200
  \/ o.kind = "response" /\ o.status_code = 200
       /\ \E i \in 1..Len(o.content) : o.content[i] = 255

\* C7: every unsuccessful fetch fails the request with the 404 of
\* FetchFailed, after one GET and without a classifier call.
FetchFailureMapping ==
  \A r \in reqs :
    (fetched[r] # <<>> /\ FetchUnsuccessful(fetched[r][1]))
    => /\ pc[r] = "raised"
       /\ response[r] = [status_code |-> 404,
                         detail |-> "Failed to get document text. Is it public?"]
       /\ gets[r] = 1
       /\ calls[r] = <<>>

\* C8: a document fetched with status 200 whose text has no question
\* marker, the empty document included, fails the request with the 404 of
\* NoQuestionsFound, without a classifier call.
NoQuestionsFound ==
  \A r \in reqs :
    (/\ fetched[r] # <<>>
     /\ ~FetchUnsuccessful(fetched[r][1])
     /\ MarkerStarts(Utf8Decode(fetched[r][1].content)) = {})
    => /\ pc[r] = "raised"
       /\ response[r] = [status_code |-> 404,
                         detail |-> "No valid question blocks (e.g., 'Q1') found."]
       /\ calls[r] = <<>>

\* the calls of request r that did not end in the rate-limit signal
NotRateLimited(r) == { n \in 1..Len(results[r]) : results[r][n] # RATE_LIMIT_ERROR }

\* C9 as stated: a pause follows every classifier call, whatever its
\* outcome, before the request returns.
UnconditionalPacing ==
  \A r \in reqs : pc[r] = "returned" => pauses[r] = Len(calls[r])

\* C9 as amended: a pause of five time units follows every classifier call
\* that does not end in the rate-limit signal, the last block's included,
\* before the next block is processed or the request returns; after the
\* rate-limit signal the request returns without a pause; two consecutive
\* calls of a request are at least five time units apart.
PacingUnlessRateLimited ==
  \A r \in reqs :
    /\ pc[r] = "returned" => pauses[r] = Cardinality(NotRateLimited(r))
    /\ pc[r] = "calling" => pauses[r] = Len(calls[r]) - 1
    /\ \A n \in 1..(Len(callTimes[r]) - 1) : callTimes[r][n+1] - callTimes[r][n] >= 5
    /\ (pc[r] = "returned" /\ results[r][Len(results[r])] # RATE_LIMIT_ERROR)
         => now - callTimes[r][Len(callTimes[r])] >= 5

\* a rate limit on the third call: two pauses, three calls
PacingUnlessRateLimitedWitness ==
  \E r \in reqs :
    /\ pc[r] = "returned"
    /\ Len(calls[r]) = 3
    /\ results[r][3] = RATE_LIMIT_ERROR
    /\ pauses[r] = 2
    /\ callTimes[r][3] - callTimes[r][1] >= 10

\* C10: in every interleaving of two requests, a request has at most one
\* classifier call in flight, submits its blocks in document order and
\* each at most once, starts a call only when the outcomes of all earlier
\* ones are in the report, and its report is as long as its completed
\* calls and never longer than its blocks.
Seriality ==
  \A r \in reqs :
    /\ inflight[r] \in {0, 1}
    /\ inflight[r] = 1 <=> pc[r] = "calling"
    /\ Len(calls[r]) <= Blocks(r)
    /\ \A n \in 1..Len(calls[r]) : calls[r][n] = parsed_questions[r][n].full_text
    /\ \A n \in 1..Len(calls[r]) : \A k \in 1..Len(calls[r]) :
         calls[r][n] = calls[r][k] => n = k
    /\ Len(calls[r]) = Len(final_audit_list[r]) + inflight[r]
    /\ Len(final_audit_list[r]) = Len(oracle[r])
    /\ Len(final_audit_list[r]) <= Blocks(r)

\* one request asleep after a failed call while the other's second call is
\* in flight
SerialityWitness ==
  /\ pc[1] = "sleeping"
  /\ results[1] # <<>> /\ results[1][Len(results[1])] = [ty |-> "None"]
  /\ pc[2] = "calling"
  /\ Len(final_audit_list[2]) = 1
  /\ Len(calls[2]) = 2

====
